---- MODULE Spec2Model ----
(***************************************************************************)
(* A model of GradientMapTool (src/script.js): the colour-stop parser, the *)
(* gradient sampler, the 256-entry lookup table, the per-pixel remap, and  *)
(* the state of the tool that holds them (colour input, gradient stops,    *)
(* original image, canvas).                                                *)
(*                                                                         *)
(* Strings are sequences of one-character strings, so that split, trim,    *)
(* toUpperCase, parseInt and the regular-expression tests are computed.    *)
(* JavaScript numbers are modelled as exact rationals [nan, n, d] (d > 0)  *)
(* with NaN as a separate value.  Quotients of small integers compare in   *)
(* binary64 as they do exactly; Math.round is taken of the exact value,    *)
(* which is the binary64 result except where the exact value lies half-way *)
(* between two integers (there the binary64 value can fall just short).    *)
(* JavaScript arrays are 0-based, sequences here are 1-based, so the       *)
(* forEach index of colors[k] is k - 1.                                    *)
(***************************************************************************)
EXTENDS Integers, Sequences, FiniteSets, TLC

\* ------------------------------------------------------------------ bounds
\* at most this many tokens in a colour-input text
MaxTokens == 3
\* number of pixels of a pixel buffer
NumPixels == 2
\* at most this many image loads in flight at once
MaxInFlight == 2
\* at most this many saved presets
MaxPresets == 2

\* ------------------------------------------------------ numbers (rational)
NaN == [nan |-> TRUE, n |-> 0, d |-> 1]

RECURSIVE GCD(_, _)
GCD(a, b) == IF b = 0 THEN a ELSE GCD(b, a % b)

Abs(a) == IF a < 0 THEN -a ELSE a

\* the rational a / b (b > 0) in lowest terms
Num(a, b) ==
    LET g == GCD(Abs(a), b)
    IN [nan |-> FALSE, n |-> a \div g, d |-> b \div g]

\* a / b of two numbers; 0/0 and x/0 do not arise where the code divides
\* (parseInt(..) / 100, index / (length - 1) with length > 1, .. / range
\* with range # 0), NaN propagates
NumDiv(x, y) ==
    IF x.nan \/ y.nan \/ y.n = 0 THEN NaN
    ELSE IF y.n > 0 THEN Num(x.n * y.d, x.d * y.n)
    ELSE Num(-(x.n * y.d), x.d * (-(y.n)))

NumSub(x, y) ==
    IF x.nan \/ y.nan THEN NaN ELSE Num(x.n * y.d - y.n * x.d, x.d * y.d)

\* comparisons: every comparison with NaN is false
NumLE(x, y) == ~x.nan /\ ~y.nan /\ x.n * y.d <= y.n * x.d

NumLT(x, y) == ~x.nan /\ ~y.nan /\ x.n * y.d < y.n * x.d

NumEq(x, y) == ~x.nan /\ ~y.nan /\ x.n * y.d = y.n * x.d

\* Math.min(1, x) and Math.max(0, x): NaN if the argument is NaN
MathMin1(x) == IF x.nan THEN NaN ELSE IF NumLT(Num(1, 1), x) THEN Num(1, 1) ELSE x

MathMax0(x) == IF x.nan THEN NaN ELSE IF NumLT(x, Num(0, 1)) THEN Num(0, 1) ELSE x

\* ------------------------------------------------------------- characters
Whitespace == {" ", "\t", "\n"}

Separators == Whitespace \cup {","}

HexDigits == <<"0", "1", "2", "3", "4", "5", "6", "7", "8", "9",
               "A", "B", "C", "D", "E", "F">>

LowerCase == <<"a", "b", "c", "d", "e", "f", "g", "h", "i", "j", "k", "l", "m",
               "n", "o", "p", "q", "r", "s", "t", "u", "v", "w", "x", "y", "z">>

UpperCase == <<"A", "B", "C", "D", "E", "F", "G", "H", "I", "J", "K", "L", "M",
               "N", "O", "P", "Q", "R", "S", "T", "U", "V", "W", "X", "Y", "Z">>

\* the upper-case letter of each lower-case letter
UpperOf == [c \in {LowerCase[i] : i \in 1..26} |->
               UpperCase[CHOOSE i \in 1..26 : LowerCase[i] = c]]

ToUpperChar(c) == IF c \in DOMAIN UpperOf THEN UpperOf[c] ELSE c

\* String.prototype.toUpperCase
ToUpperCase(s) == [i \in 1..Len(s) |-> ToUpperChar(s[i])]

\* the value of each hexadecimal digit, of either case
HexValueOf == [c \in {HexDigits[i] : i \in 1..16} |->
                  (CHOOSE i \in 1..16 : HexDigits[i] = c) - 1]

IsHexDigit(c) == ToUpperChar(c) \in DOMAIN HexValueOf

HexVal(c) == HexValueOf[ToUpperChar(c)]

IsDecDigit(c) == c \in DOMAIN HexValueOf /\ HexValueOf[c] < 10

DecVal(c) == HexValueOf[c]

\* ---------------------------------------------------------------- strings
RECURSIVE TrimStart(_)
TrimStart(s) ==
    IF s # <<>> /\ Head(s) \in Whitespace THEN TrimStart(Tail(s)) ELSE s

RECURSIVE TrimEnd(_)
TrimEnd(s) ==
    IF s # <<>> /\ s[Len(s)] \in Whitespace
    THEN TrimEnd(SubSeq(s, 1, Len(s) - 1)) ELSE s

\* String.prototype.trim
Trim(s) == TrimEnd(TrimStart(s))

\* input.split(/[\s,]+/): the pieces between maximal runs of separators,
\* an empty piece before a leading and after a trailing run included
RECURSIVE SplitFrom(_, _, _)
SplitFrom(s, i, cur) ==
    IF i > Len(s) THEN <<cur>>
    ELSE IF s[i] \in Separators
         THEN IF i > 1 /\ s[i - 1] \in Separators
              THEN SplitFrom(s, i + 1, cur)
              ELSE <<cur>> \o SplitFrom(s, i + 1, <<>>)
         ELSE SplitFrom(s, i + 1, Append(cur, s[i]))

SplitSeparators(s) == SplitFrom(s, 1, <<>>)

\* input.split(/[\s,]+/).filter(c => c.trim())
SplitColors(input) == SelectSeq(SplitSeparators(input), LAMBDA c : Trim(c) # <<>>)

\* hexColor.includes('-')
IncludesDash(s) == \E i \in 1..Len(s) : s[i] = "-"

\* hexColor.split('-'): parts[0] and parts[1]
FirstDash(s) == CHOOSE i \in 1..Len(s) : s[i] = "-" /\ \A j \in 1..(i - 1) : s[j] # "-"

DashPart0(s) == SubSeq(s, 1, FirstDash(s) - 1)

RECURSIVE UpToDash(_)
UpToDash(s) ==
    IF s = <<>> \/ Head(s) = "-" THEN <<>> ELSE <<Head(s)>> \o UpToDash(Tail(s))

DashPart1(s) == UpToDash(SubSeq(s, FirstDash(s) + 1, Len(s)))

\* the value of the longest prefix of s made of digits of the radix,
\* -1 when s does not start with such a digit
RECURSIVE DigitsValue(_, _, _)
DigitsValue(s, radix, acc) ==
    IF s # <<>> /\ (IF radix = 16 THEN IsHexDigit(Head(s)) ELSE IsDecDigit(Head(s)))
    THEN DigitsValue(Tail(s), radix,
                     (IF acc < 0 THEN 0 ELSE acc) * radix
                     + (IF radix = 16 THEN HexVal(Head(s)) ELSE DecVal(Head(s))))
    ELSE acc

\* parseInt(s) with no radix: leading white space, an optional sign, an
\* optional 0x / 0X prefix selecting radix 16, then the digits; NaN if none
ParseIntBody(s, sign) ==
    LET hex  == Len(s) >= 2 /\ s[1] = "0" /\ s[2] \in {"x", "X"}
        body == IF hex THEN SubSeq(s, 3, Len(s)) ELSE s
        v    == DigitsValue(body, IF hex THEN 16 ELSE 10, -1)
    IN IF v < 0 THEN NaN ELSE Num(sign * v, 1)

ParseInt(str) ==
    LET s == TrimStart(str)
    IN IF s # <<>> /\ Head(s) = "-" THEN ParseIntBody(Tail(s), -1)
       ELSE IF s # <<>> /\ Head(s) = "+" THEN ParseIntBody(Tail(s), 1)
       ELSE ParseIntBody(s, 1)

\* /^#[0-9A-F]{6}$/i.test(hexColor)
IsHexColor(s) == Len(s) = 7 /\ s[1] = "#" /\ \A i \in 2..7 : IsHexDigit(s[i])


\* ------------------------------------------------------- parseColorInput
\* StopOfToken dividing the index by colors.length instead of
\* colors.length - 1
StopOfTokenByLength(color, index, length) ==
    LET upper    == ToUpperCase(Trim(color))
        dashed   == IncludesDash(upper)
        part0    == IF dashed THEN DashPart0(upper) ELSE upper
        explicit == NumDiv(ParseInt(DashPart1(upper)), Num(100, 1))
        hexColor == IF part0 # <<>> /\ Head(part0) = "#" THEN part0 ELSE <<"#">> \o part0
        position == IF dashed THEN explicit
                    ELSE IF length > 1 THEN NumDiv(Num(index, 1), Num(length, 1))
                    ELSE Num(0, 1)
    IN IF IsHexColor(hexColor)
       THEN <<[color |-> hexColor, position |-> MathMax0(MathMin1(position))]>>
       ELSE <<>>

\* the body of the forEach callback for colors[index] (index 0-based, length
\* = colors.length): the stops it pushes, none or one
StopOfToken(color, index, length) ==
    LET upper    == ToUpperCase(Trim(color))
        dashed   == IncludesDash(upper)
        part0    == IF dashed THEN DashPart0(upper) ELSE upper
        explicit == NumDiv(ParseInt(DashPart1(upper)), Num(100, 1))
        hexColor == IF part0 # <<>> /\ Head(part0) = "#" THEN part0 ELSE <<"#">> \o part0
        position == IF dashed THEN explicit
                    ELSE IF length > 1 THEN NumDiv(Num(index, 1), Num(length - 1, 1))
                    ELSE Num(0, 1)
    IN IF IsHexColor(hexColor)
       THEN <<[color |-> hexColor, position |-> MathMax0(MathMin1(position))]>>
       ELSE <<>>

\* colors.forEach(...): the stops pushed, in the order of the tokens
RECURSIVE ForEachFrom(_, _)
ForEachFrom(colors, k) ==
    IF k > Len(colors) THEN <<>>
    ELSE StopOfToken(colors[k], k - 1, Len(colors)) \o ForEachFrom(colors, k + 1)

ForEachStops(colors) == ForEachFrom(colors, 1)

\* (a, b) => a.position - b.position, as Array.prototype.sort reads it:
\* the sign of the result, a NaN result counting as +0
SortCompare(a, b) ==
    LET v == NumSub(a.position, b.position)
    IN IF v.nan \/ v.n = 0 THEN 0 ELSE IF v.n < 0 THEN -1 ELSE 1

\* the comparator is a consistent comparison function for these elements
\* (ECMAScript 23.1.3.30: the orderings it induces are transitive)
ConsistentCompare(stops) ==
    \A i, j, k \in 1..Len(stops) :
        /\ (SortCompare(stops[i], stops[j]) = 0 /\ SortCompare(stops[j], stops[k]) = 0)
              => SortCompare(stops[i], stops[k]) = 0
        /\ (SortCompare(stops[i], stops[j]) < 0 /\ SortCompare(stops[j], stops[k]) < 0)
              => SortCompare(stops[i], stops[k]) < 0
        /\ (SortCompare(stops[i], stops[j]) = 0 /\ SortCompare(stops[j], stops[k]) < 0)
              => SortCompare(stops[i], stops[k]) < 0
        /\ (SortCompare(stops[i], stops[j]) < 0 /\ SortCompare(stops[j], stops[k]) = 0)
              => SortCompare(stops[i], stops[k]) < 0

\* x inserted after every element that does not compare greater than it
RECURSIVE InsertStable(_, _)
InsertStable(sorted, x) ==
    IF sorted = <<>> THEN <<x>>
    ELSE IF SortCompare(sorted[Len(sorted)], x) <= 0 THEN Append(sorted, x)
    ELSE Append(InsertStable(SubSeq(sorted, 1, Len(sorted) - 1), x), sorted[Len(sorted)])

RECURSIVE StableSort(_)
StableSort(stops) ==
    IF stops = <<>> THEN <<>>
    ELSE InsertStable(StableSort(SubSeq(stops, 1, Len(stops) - 1)), stops[Len(stops)])

\* stops.sort(compare): the stable sorted order when the comparator is
\* consistent, otherwise an implementation-defined order of the same elements
SortOutcomes(stops) ==
    IF ConsistentCompare(stops) THEN {StableSort(stops)}
    ELSE {[i \in 1..Len(stops) |-> stops[p[i]]] : p \in Permutations(1..Len(stops))}

\* parseColorInput(input): the stop lists it can return
parseColorInput(input) == SortOutcomes(ForEachStops(SplitColors(input)))

\* ------------------------------------------------------ getGradientColor
\* parseInt(two hex digits, 16)
HexPair(s, i) == 16 * HexVal(s[i]) + HexVal(s[i + 1])

\* hexToRgb(hex): /^#?([a-f\d]{2})([a-f\d]{2})([a-f\d]{2})$/i, black if no match
hexToRgb(hex) ==
    LET h == IF hex # <<>> /\ Head(hex) = "#" THEN Tail(hex) ELSE hex
    IN IF Len(h) = 6 /\ \A i \in 1..6 : IsHexDigit(h[i])
       THEN [r |-> HexPair(h, 1), g |-> HexPair(h, 3), b |-> HexPair(h, 5)]
       ELSE [r |-> 0, g |-> 0, b |-> 0]

\* Math.round(left + (right - left) * factor) for integers left, right and
\* a rational factor: the nearest integer, a half rounding up
RoundMix(left, right, factor) ==
    left + ((2 * (right - left) * factor.n + factor.d) \div (2 * factor.d))

\* the index i of the first pair (stops[i], stops[i+1]) whose positions
\* enclose the position, 0 if the loop ends without a break
FirstEnclosing(stops, position) ==
    LET hits == {i \in 1..(Len(stops) - 1) :
                    /\ NumLE(stops[i].position, position)
                    /\ NumLE(position, stops[i + 1].position)}
    IN IF hits = {} THEN 0 ELSE CHOOSE i \in hits : \A j \in hits : i <= j

\* getGradientColor without the return for a single stop
getGradientColorNoSingle(stops, position) ==
    IF Len(stops) = 0 THEN [nan |-> FALSE, r |-> 0, g |-> 0, b |-> 0]
    ELSE LET i          == FirstEnclosing(stops, position)
             leftStop   == IF i = 0 THEN stops[1] ELSE stops[i]
             rightStop  == IF i = 0 THEN stops[Len(stops)] ELSE stops[i + 1]
             leftColor  == hexToRgb(leftStop.color)
             rightColor == hexToRgb(rightStop.color)
             range      == NumSub(rightStop.position, leftStop.position)
             factor     == IF ~range.nan /\ range.n = 0 THEN Num(0, 1)
                           ELSE NumDiv(NumSub(position, leftStop.position), range)
         IN IF factor.nan THEN [nan |-> TRUE, r |-> 0, g |-> 0, b |-> 0]
            ELSE [nan |-> FALSE,
                  r |-> RoundMix(leftColor.r, rightColor.r, factor),
                  g |-> RoundMix(leftColor.g, rightColor.g, factor),
                  b |-> RoundMix(leftColor.b, rightColor.b, factor)]

\* getGradientColor(position) on this.gradientStops = stops; a colour is
\* [nan, r, g, b], nan when the three channels are NaN (a NaN factor makes
\* all three NaN)
getGradientColor(stops, position) ==
    IF Len(stops) = 0 THEN [nan |-> FALSE, r |-> 0, g |-> 0, b |-> 0]
    ELSE IF Len(stops) = 1
    THEN LET c == hexToRgb(stops[1].color)
         IN [nan |-> FALSE, r |-> c.r, g |-> c.g, b |-> c.b]
    ELSE LET i          == FirstEnclosing(stops, position)
             leftStop   == IF i = 0 THEN stops[1] ELSE stops[i]
             rightStop  == IF i = 0 THEN stops[Len(stops)] ELSE stops[i + 1]
             leftColor  == hexToRgb(leftStop.color)
             rightColor == hexToRgb(rightStop.color)
             range      == NumSub(rightStop.position, leftStop.position)
             factor     == IF ~range.nan /\ range.n = 0 THEN Num(0, 1)
                           ELSE NumDiv(NumSub(position, leftStop.position), range)
         IN IF factor.nan THEN [nan |-> TRUE, r |-> 0, g |-> 0, b |-> 0]
            ELSE [nan |-> FALSE,
                  r |-> RoundMix(leftColor.r, rightColor.r, factor),
                  g |-> RoundMix(leftColor.g, rightColor.g, factor),
                  b |-> RoundMix(leftColor.b, rightColor.b, factor)]

\* the indices of the table: for (let i = 0; i < 256; i++)
LutIndices == 0..255

\* createGradientLUT filling the table from the far end
createGradientLUTReversed(stops) ==
    [i \in LutIndices |-> getGradientColor(stops, NumDiv(Num(255 - i, 1), Num(255, 1)))]

\* createGradientLUT(): lut[i] = getGradientColor(i / 255), i = 0..255
createGradientLUT(stops) ==
    [i \in LutIndices |-> getGradientColor(stops, NumDiv(Num(i, 1), Num(255, 1)))]

\* ------------------------------------------------------- applyGradientMap
\* a store into the Uint8ClampedArray of an ImageData: NaN becomes 0,
\* other values are clamped to 0..255
ToUint8Clamped(nan, v) ==
    IF nan THEN 0 ELSE IF v < 0 THEN 0 ELSE IF v > 255 THEN 255 ELSE v

\* the luminance with a mistyped weight, 0.104 for 0.114
LuminanceMistyped(r, g, b) == (299 * r + 587 * g + 104 * b + 500) \div 1000

\* the luminance with a mistyped weight, 0.144 for 0.114
LuminanceHeavy(r, g, b) == (299 * r + 587 * g + 144 * b + 500) \div 1000

\* Math.round(0.299 * r + 0.587 * g + 0.114 * b)
Luminance(r, g, b) == (299 * r + 587 * g + 114 * b + 500) \div 1000

\* the turn of the loop writing an opaque pixel
RemapPixelOpaque(px, gradientLUT) ==
    LET gradientColor == gradientLUT[Luminance(px.r, px.g, px.b)]
    IN [r |-> ToUint8Clamped(gradientColor.nan, gradientColor.r),
        g |-> ToUint8Clamped(gradientColor.nan, gradientColor.g),
        b |-> ToUint8Clamped(gradientColor.nan, gradientColor.b),
        a |-> 255]

\* one turn of the loop of applyGradientMap on the pixel [r, g, b, a]
RemapPixel(px, gradientLUT) ==
    LET gradientColor == gradientLUT[Luminance(px.r, px.g, px.b)]
    IN [r |-> ToUint8Clamped(gradientColor.nan, gradientColor.r),
        g |-> ToUint8Clamped(gradientColor.nan, gradientColor.g),
        b |-> ToUint8Clamped(gradientColor.nan, gradientColor.b),
        a |-> px.a]

\* the first pixel at which the loop throws: gradientLUT[luminance] is
\* undefined when luminance is not an index of the table, and reading
\* gradientColor.r is then a TypeError; 0 if the loop runs to its end
LoopThrowsAt(data) ==
    LET outside == {i \in 1..Len(data) :
                       Luminance(data[i].r, data[i].g, data[i].b) \notin LutIndices}
    IN IF outside = {} THEN 0 ELSE CHOOSE i \in outside : \A j \in outside : i <= j

\* the loop of applyGradientMap over the pixels of the image data: the
\* pixels before a throw are written, the others are as they were
RemapData(data, gradientLUT) ==
    LET thrown == LoopThrowsAt(data)
    IN [i \in 1..Len(data) |->
           IF thrown = 0 \/ i < thrown THEN RemapPixel(data[i], gradientLUT)
           ELSE data[i]]

\* ---------------------------------------------------------------- inputs
Black == <<"0", "0", "0", "0", "0", "0">>

White == <<"F", "F", "F", "F", "F", "F">>

Gray == <<"8", "0", "8", "0", "8", "0">>

Red == <<"F", "F", "0", "0", "0", "0">>

\* the tokens the colour-input texts are made of: colours, not a colour,
\* positions explicit and empty
Tokens ==
    { Black, White, <<"Z", "Z", "Z", "Z", "Z", "Z">>,
      Black \o <<"-", "2", "0">>, White \o <<"-", "8", "0">>, Gray \o <<"-">> }

TokenLists == UNION { [1..n -> Tokens] : n \in 0..MaxTokens }

RECURSIVE JoinComma(_)
JoinComma(ts) ==
    IF ts = <<>> THEN <<>>
    ELSE IF Len(ts) = 1 THEN ts[1]
    ELSE ts[1] \o <<",">> \o JoinComma(Tail(ts))

\* texts with leading, trailing and repeated separators, white space, '#',
\* lower case, a position without a colour, and positions that are above
\* 100, hexadecimal, signed, negative, not a number
OddTexts ==
    { <<" ">> \o Black \o <<",", ",", " ">> \o White \o <<" ">>,
      <<",">> \o Red,
      Black \o <<"\t">> \o White \o <<",">>,
      <<"-", "5", "0">>,
      <<"#">>,
      <<"#", "f", "f", "8", "0", "0", "0", ",", "#">> \o Black,
      Black \o <<"\n">> \o Red \o <<"-", "1", "5", "0">>,
      White \o <<"-", "0", "x", "3", "2", ",">> \o Black \o <<"-", "+", "2", "0">>,
      Red \o <<"-", "-", "5", ",">> \o Gray \o <<"-", "5", "0">>,
      Red \o <<"-", "x", " ">> \o Gray \o <<"-", "5", "0", "%">> }

\* the colour-input texts of the parser's specification
Texts == { JoinComma(ts) : ts \in TokenLists } \cup OddTexts

\* the colour-input texts typed into the tool
ToolTexts ==
    { <<>>,
      Black \o <<",">> \o White,
      <<" ">> \o Red \o <<"-", "2", "0", ",">> \o White \o <<"-", "8", "0">>,
      <<"Z", "Z", "Z", "Z", "Z", "Z">> }

\* RGBA pixels: transparent and translucent, grey and coloured
Pixels ==
    { [r |-> 255, g |-> 255, b |-> 255, a |-> 0],
      [r |-> 128, g |-> 128, b |-> 128, a |-> 128],
      [r |-> 255, g |-> 0, b |-> 0, a |-> 200],
      [r |-> 10, g |-> 200, b |-> 30, a |-> 17] }

Buffers == [1..NumPixels -> Pixels]

\* the images given to the tool: one of a single colour, one of two
ToolImages ==
    { [i \in 1..NumPixels |-> [r |-> 255, g |-> 0, b |-> 0, a |-> 200]],
      [i \in 1..NumPixels |-> IF i = 1 THEN [r |-> 128, g |-> 128, b |-> 128, a |-> 128]
                              ELSE [r |-> 10, g |-> 200, b |-> 30, a |-> 17]] }

\* the files given to the tool: images, and one file that is not an image
Files == [image : {TRUE}, pixels : ToolImages] \cup [image : {FALSE}, pixels : {<<>>}]

\* ----------------------------------------------------------------- state
\* this.originalImage = null, this.selectedPresetIndex = null
NoImage == <<>>

Null == -1

VARIABLES
    \* the tool (GradientMapTool)
    colorInput,          \* this.colorInput.value
    gradientStops,       \* this.gradientStops
    originalImage,       \* this.originalImage: its pixels, NoImage for null
    canvas,              \* the pixels of this.outputCanvas
    canvasHidden,        \* outputCanvas has class 'hidden'
    loads,               \* image loads in flight, in the order requested
    gradientPresets,     \* this.gradientPresets: the colors strings
    selectedPresetIndex, \* this.selectedPresetIndex, 0-based, Null for null
    lastRequested,       \* history: the image of the load started last
    \* one run of the pipeline text -> stops -> table -> pixels
    pc,                  \* the next step of the run
    input,               \* parseColorInput's argument
    colors,              \* parseColorInput's colors
    stops,               \* parseColorInput's stops
    lut,                 \* createGradientLUT's lut
    pixels,              \* the image data read from the canvas
    data                 \* the image data after the loop

toolVars == <<colorInput, gradientStops, originalImage, canvas, canvasHidden,
              loads, gradientPresets, selectedPresetIndex, lastRequested>>

coreVars == <<pc, input, colors, stops, lut, pixels, data>>

vars == <<toolVars, coreVars>>

\* ------------------------------------------------------ the tool's steps
\* drawImageToCanvas(): the canvas holds the original image's pixels
drawImageToCanvas(image, cnv) == IF image = NoImage THEN cnv ELSE image

\* applyGradientMap without its drawImageToCanvas(): the loop runs on what
\* the canvas holds
applyGradientMapOnCanvas(image, gstops, cnv) ==
    IF image = NoImage \/ Len(gstops) = 0 THEN cnv
    ELSE LET table == createGradientLUT(gstops)
         IN IF LoopThrowsAt(cnv) # 0 THEN cnv
            ELSE RemapData(cnv, table)

\* applyGradientMap() with this.originalImage = image, this.gradientStops =
\* gstops: the pixels of the canvas afterwards
applyGradientMap(image, gstops, cnv) ==
    IF image = NoImage \/ Len(gstops) = 0 THEN cnv
    ELSE LET drawn == drawImageToCanvas(image, cnv)
             table == createGradientLUT(gstops)
         IN IF LoopThrowsAt(drawn) # 0 THEN drawn  \* putImageData not reached
            ELSE RemapData(drawn, table)

\* the state after the constructor: loadFromURL() has put the text of the
\* URL (or the text the input element starts with) through updateGradient()
ToolInit ==
    /\ colorInput \in ToolTexts
    /\ gradientStops \in parseColorInput(colorInput)
    /\ originalImage = NoImage
    /\ canvas = <<>>
    /\ canvasHidden = TRUE
    /\ loads = <<>>
    /\ gradientPresets = <<>>
    /\ selectedPresetIndex = Null
    /\ lastRequested = NoImage

\* the pipeline is not run step by step in the tool
CoreIdle ==
    /\ pc = "idle"
    /\ input = <<>>
    /\ colors = <<>>
    /\ stops = <<>>
    /\ lut = <<>>
    /\ pixels = <<>>
    /\ data = <<>>

Init == ToolInit /\ CoreIdle

\* updateGradient() after this.colorInput.value has become text
UpdateGradient(text) ==
    /\ colorInput' = text
    /\ gradientStops' \in parseColorInput(text)
    /\ canvas' = applyGradientMap(originalImage, gradientStops', canvas)

\* an 'input' event of the colour input: both listeners
InputEvent(text) ==
    /\ selectedPresetIndex' = Null
    /\ UpdateGradient(text)
    /\ UNCHANGED <<originalImage, canvasHidden, loads, gradientPresets,
                   lastRequested, coreVars>>

\* handleFile(file), from the file input or a drop
HandleFile(file) ==
    /\ Len(loads) < MaxInFlight
    /\ loads' = IF file.image
                THEN Append(loads, [stage |-> "reading", pixels |-> file.pixels])
                ELSE loads
    /\ lastRequested' = IF file.image THEN file.pixels ELSE lastRequested
    /\ UNCHANGED <<colorInput, gradientStops, originalImage, canvas, canvasHidden,
                   gradientPresets, selectedPresetIndex, coreVars>>

\* reader.onload of the k-th load in flight
ReaderOnload(k) ==
    /\ k \in 1..Len(loads)
    /\ loads[k].stage = "reading"
    /\ loads' = [loads EXCEPT ![k].stage = "decoding"]
    /\ UNCHANGED <<colorInput, gradientStops, originalImage, canvas, canvasHidden,
                   gradientPresets, selectedPresetIndex, lastRequested, coreVars>>

\* loadImageFromBlob(blob), from a paste
LoadImageFromBlob(blob) ==
    /\ Len(loads) < MaxInFlight
    /\ loads' = Append(loads, [stage |-> "decoding", pixels |-> blob])
    /\ lastRequested' = blob
    /\ UNCHANGED <<colorInput, gradientStops, originalImage, canvas, canvasHidden,
                   gradientPresets, selectedPresetIndex, coreVars>>

\* img.onload of the k-th load in flight
ImgOnload(k) ==
    /\ k \in 1..Len(loads)
    /\ loads[k].stage = "decoding"
    /\ originalImage' = loads[k].pixels
    /\ canvas' = applyGradientMap(originalImage', gradientStops,
                                  drawImageToCanvas(originalImage', canvas))
    /\ canvasHidden' = FALSE
    /\ loads' = SubSeq(loads, 1, k - 1) \o SubSeq(loads, k + 1, Len(loads))
    /\ UNCHANGED <<colorInput, gradientStops, gradientPresets, selectedPresetIndex,
                   lastRequested, coreVars>>

\* saveCurrentGradientAsPreset looking for the untrimmed text among the
\* presets
SaveCurrentGradientAsPresetUntrimmed ==
    LET text == Trim(colorInput)
    IN /\ Len(gradientPresets) < MaxPresets
       /\ IF \/ text = <<>>
             \/ Len(gradientStops) = 0
             \/ \E i \in 1..Len(gradientPresets) : gradientPresets[i] = colorInput
          THEN UNCHANGED <<gradientPresets, selectedPresetIndex>>
          ELSE /\ gradientPresets' = Append(gradientPresets, text)
               /\ selectedPresetIndex' = Len(gradientPresets') - 1
       /\ UNCHANGED <<colorInput, gradientStops, originalImage, canvas, canvasHidden,
                      loads, lastRequested, coreVars>>

\* saveCurrentGradientAsPreset(), a click on the save-gradient button
SaveCurrentGradientAsPreset ==
    LET text == Trim(colorInput)
    IN /\ Len(gradientPresets) < MaxPresets
       /\ IF \/ text = <<>>
             \/ Len(gradientStops) = 0
             \/ \E i \in 1..Len(gradientPresets) : gradientPresets[i] = text
          THEN UNCHANGED <<gradientPresets, selectedPresetIndex>>
          ELSE /\ gradientPresets' = Append(gradientPresets, text)
               /\ selectedPresetIndex' = Len(gradientPresets') - 1
       /\ UNCHANGED <<colorInput, gradientStops, originalImage, canvas, canvasHidden,
                      loads, lastRequested, coreVars>>

\* a click on the preset button with index idx (0-based)
PresetClick(idx) ==
    /\ idx \in 0..(Len(gradientPresets) - 1)
    /\ selectedPresetIndex' = idx
    /\ UpdateGradient(gradientPresets[idx + 1])
    /\ UNCHANGED <<originalImage, canvasHidden, loads, gradientPresets,
                   lastRequested, coreVars>>

\* deleteSelectedPreset leaving the selection as it was
DeleteSelectedPresetKeepingSelection ==
    /\ selectedPresetIndex # Null
    /\ gradientPresets' = SubSeq(gradientPresets, 1, selectedPresetIndex)
                          \o SubSeq(gradientPresets, selectedPresetIndex + 2,
                                    Len(gradientPresets))
    /\ UNCHANGED <<colorInput, gradientStops, originalImage, canvas, canvasHidden,
                   loads, selectedPresetIndex, lastRequested, coreVars>>

\* deleteSelectedPreset(), from Delete or Backspace outside the colour input
DeleteSelectedPreset ==
    /\ selectedPresetIndex # Null
    /\ gradientPresets' = SubSeq(gradientPresets, 1, selectedPresetIndex)
                          \o SubSeq(gradientPresets, selectedPresetIndex + 2,
                                    Len(gradientPresets))
    /\ selectedPresetIndex' = Null
    /\ UNCHANGED <<colorInput, gradientStops, originalImage, canvas, canvasHidden,
                   loads, lastRequested, coreVars>>

Next ==
    \/ \E text \in ToolTexts : InputEvent(text)
    \/ \E file \in Files : HandleFile(file)
    \/ \E k \in 1..MaxInFlight : ReaderOnload(k)
    \/ \E blob \in ToolImages : LoadImageFromBlob(blob)
    \/ \E k \in 1..MaxInFlight : ImgOnload(k)
    \/ SaveCurrentGradientAsPreset
    \/ \E idx \in 0..(MaxPresets - 1) : PresetClick(idx)
    \/ DeleteSelectedPreset

Spec == Init /\ [][Next]_vars

\* ------------------------------------------- the pipeline, step by step
\* the tool is as constructed, with no text
ToolIdle ==
    /\ colorInput = <<>>
    /\ gradientStops = <<>>
    /\ originalImage = NoImage
    /\ canvas = <<>>
    /\ canvasHidden = TRUE
    /\ loads = <<>>
    /\ gradientPresets = <<>>
    /\ selectedPresetIndex = Null
    /\ lastRequested = NoImage

InitCore ==
    /\ ToolIdle
    /\ pc = "split"
    /\ input \in Texts
    /\ colors = <<>>
    /\ stops = <<>>
    /\ lut = <<>>
    /\ pixels = <<>>
    /\ data = <<>>

\* const colors = input.split(/[\s,]+/).filter(c => c.trim())
SplitStep ==
    /\ pc = "split"
    /\ colors' = SplitColors(input)
    /\ pc' = "forEach"
    /\ UNCHANGED <<input, stops, lut, pixels, data, toolVars>>

\* colors.forEach(...)
ForEachStep ==
    /\ pc = "forEach"
    /\ stops' = ForEachStops(colors)
    /\ pc' = "sort"
    /\ UNCHANGED <<input, colors, lut, pixels, data, toolVars>>

\* stops.sort(...); return stops
SortStep ==
    /\ pc = "sort"
    /\ stops' \in SortOutcomes(stops)
    /\ pc' = "lut"
    /\ UNCHANGED <<input, colors, lut, pixels, data, toolVars>>

\* createGradientLUT() on the stops returned
LutStep ==
    /\ pc = "lut"
    /\ lut' = createGradientLUT(stops)
    /\ pc' = "remap"
    /\ UNCHANGED <<input, colors, stops, pixels, data, toolVars>>

\* the loop of applyGradientMap on the image data buffer
RemapStep(buffer) ==
    /\ pc = "remap"
    /\ pixels' = buffer
    /\ data' = RemapData(buffer, lut)
    /\ pc' = "done"
    /\ UNCHANGED <<input, colors, stops, lut, toolVars>>

NextCore ==
    \/ SplitStep
    \/ ForEachStep
    \/ SortStep
    \/ LutStep
    \/ \E buffer \in Buffers : RemapStep(buffer)

SpecCore == InitCore /\ [][NextCore]_vars

\* ----------------------------------------------------------- properties
\* the text 000000,FFFFFF
BlackToWhite == Black \o <<",">> \o White

Parsed == pc \in {"lut", "remap", "done"}

Built == pc \in {"remap", "done"}

\* the colour a table entry holds is exactly this r, g, b
IsColor(entry, c) == ~entry.nan /\ entry.r = c.r /\ entry.g = c.g /\ entry.b = c.b

\* the 1-based place in colors of the token that pushed the j-th stop
PushingToken(j) ==
    CHOOSE k \in 1..Len(colors) :
        /\ StopOfToken(colors[k], k - 1, Len(colors)) # <<>>
        /\ Cardinality({m \in 1..k : StopOfToken(colors[m], m - 1, Len(colors)) # <<>>}) = j

\* C1: the remap leaves the alpha of every pixel as it was, whatever the
\* gradient: only the channels r, g, b of the buffer are written
C1_AlphaPreserved ==
    pc = "done" =>
        /\ Len(data) = Len(pixels)
        /\ \A i \in 1..Len(pixels) : data[i].a = pixels[i].a

\* a translucent pixel has been given another colour
C1_Witness ==
    /\ pc = "done"
    /\ \E i \in 1..Len(pixels) :
          /\ pixels[i].a = 17
          /\ data[i].g # pixels[i].g
          /\ data[i].a = 17

\* a token that is a colour of six hexadecimal digits, alone or followed by
\* '-' and a decimal integer from 0 to 100
IsValidToken(t) ==
    LET upper == ToUpperCase(Trim(t))
        part0 == IF IncludesDash(upper) THEN DashPart0(upper) ELSE upper
        part1 == SubSeq(upper, Len(part0) + 2, Len(upper))
    IN /\ IsHexColor(IF part0 # <<>> /\ Head(part0) = "#" THEN part0 ELSE <<"#">> \o part0)
       /\ IncludesDash(upper) =>
             /\ part1 # <<>>
             /\ \A i \in 1..Len(part1) : IsDecDigit(part1[i])
             /\ NumLE(ParseInt(part1), Num(100, 1))

\* C2: for stops parsed from valid tokens, every one of the 256 entries of
\* the table is an RGB triple with r, g and b in 0..255
C2_LutEntriesAreRgb ==
    (Built /\ \A k \in 1..Len(colors) : IsValidToken(colors[k])) =>
        \A i \in 0..255 :
            /\ ~lut[i].nan
            /\ lut[i].r \in 0..255
            /\ lut[i].g \in 0..255
            /\ lut[i].b \in 0..255

\* C3: with two or more stops (each at a position that is a number), a
\* position below the first stop's position gets exactly the first stop's
\* colour and a position above the last stop's position gets exactly the
\* last stop's colour
C3_OutsideIsBoundaryColor ==
    (Built /\ Len(stops) >= 2 /\ \A j \in 1..Len(stops) : ~stops[j].position.nan) =>
        \A i \in 0..255 :
            /\ NumLT(Num(i, 255), stops[1].position)
                  => IsColor(lut[i], hexToRgb(stops[1].color))
            /\ NumLT(stops[Len(stops)].position, Num(i, 255))
                  => IsColor(lut[i], hexToRgb(stops[Len(stops)].color))

\* C4: every stop parseColorInput returns has a position that is a number
\* within [0, 1]
C4_PositionsInUnitInterval ==
    Parsed =>
        \A j \in 1..Len(stops) :
            /\ ~stops[j].position.nan
            /\ NumLE(Num(0, 1), stops[j].position)
            /\ NumLE(stops[j].position, Num(1, 1))

\* C5 as stated: a valid token without explicit position gets position
\* index / (N - 1), N the number of valid tokens, if N > 1 (clamped into
\* [0, 1]), and position 0 if N = 1
C5_SpacedByValidCount ==
    pc = "sort" =>
        \A j \in 1..Len(stops) :
            LET k == PushingToken(j)
                N == Len(stops)
            IN ~IncludesDash(colors[k]) =>
                  NumEq(stops[j].position,
                        IF N > 1 THEN MathMin1(NumDiv(Num(k - 1, 1), Num(N - 1, 1)))
                        ELSE Num(0, 1))

\* C5 amended: a valid token without explicit position gets position
\* index / (L - 1), L the number of all tokens, valid or not, if L > 1, and
\* position 0 if L = 1
C5_SpacedByTokenCount ==
    pc = "sort" =>
        \A j \in 1..Len(stops) :
            LET k == PushingToken(j)
                L == Len(colors)
            IN ~IncludesDash(colors[k]) =>
                  NumEq(stops[j].position,
                        IF L > 1 THEN NumDiv(Num(k - 1, 1), Num(L - 1, 1))
                        ELSE Num(0, 1))

\* a token without explicit position that follows tokens that are not valid
\* has been given a position strictly between 0 and 1
C5_Witness ==
    /\ pc = "sort"
    /\ Len(stops) < Len(colors)
    /\ \E j \in 1..Len(stops) :
          /\ ~IncludesDash(colors[PushingToken(j)])
          /\ PushingToken(j) > j
          /\ NumLT(Num(0, 1), stops[j].position)
          /\ NumLT(stops[j].position, Num(1, 1))

\* C6: the stops returned are in ascending order of position, and stops of
\* equal position are in the order in which the input has them
C6_SortedAndStable ==
    Parsed =>
        /\ \A i, j \in 1..Len(stops) :
              i < j => NumLE(stops[i].position, stops[j].position)
        /\ \E p \in Permutations(1..Len(stops)) :
              /\ \A i \in 1..Len(stops) : stops[i] = ForEachStops(colors)[p[i]]
              /\ \A i, j \in 1..Len(stops) :
                    (i < j /\ NumEq(stops[i].position, stops[j].position))
                        => p[i] < p[j]

\* C7: whenever an image is loaded and the gradient has no stops, the canvas
\* holds the pixels of the original image
C7_ZeroStopsShowOriginal ==
    (originalImage # NoImage /\ Len(gradientStops) = 0) => canvas = originalImage

IsGrayscale(buffer) == \A i \in 1..Len(buffer) : buffer[i].r = buffer[i].g /\ buffer[i].g = buffer[i].b

\* C8: the table of 000000,FFFFFF is the identity table, lut[i] = (i, i, i),
\* and on a grayscale buffer the remap through the identity table applied
\* again to its own output gives that output
C8_IdentityIdempotent ==
    pc = "done" =>
        /\ input = BlackToWhite =>
              \A i \in 0..255 : IsColor(lut[i], [r |-> i, g |-> i, b |-> i])
        /\ ((\A i \in 0..255 : IsColor(lut[i], [r |-> i, g |-> i, b |-> i]))
               /\ IsGrayscale(pixels))
              => RemapData(data, lut) = data

\* a grayscale buffer of two different greys has gone through the identity
\* table
C8_Witness ==
    /\ pc = "done"
    /\ input = BlackToWhite
    /\ IsGrayscale(pixels)
    /\ \E i, j \in 1..Len(pixels) : pixels[i].r = 128 /\ pixels[j].r = 255
    /\ data = RemapData(pixels, lut)

\* C9: with exactly one stop, whatever its position, every entry of the
\* table is that stop's colour, and so is the RGB of every remapped pixel
C9_SingleStopConstant ==
    (Built /\ Len(stops) = 1) =>
        /\ \A i \in 0..255 : IsColor(lut[i], hexToRgb(stops[1].color))
        /\ pc = "done" =>
              \A k \in 1..Len(data) :
                  IsColor([nan |-> FALSE, r |-> data[k].r, g |-> data[k].g,
                           b |-> data[k].b], hexToRgb(stops[1].color))

\* pixels of different colours have gone through the table of a single
\* stop whose position is not 0
C9_Witness ==
    /\ pc = "done"
    /\ Len(stops) = 1
    /\ ~NumEq(stops[1].position, Num(0, 1))
    /\ hexToRgb(stops[1].color) = [r |-> 255, g |-> 255, b |-> 255]
    /\ \E i, j \in 1..Len(pixels) : pixels[i].r # pixels[j].r
    /\ \A k \in 1..Len(data) : data[k].r = 255 /\ data[k].g = 255 /\ data[k].b = 255

\* C10: through the table of 000000,FFFFFF, a pixel of no greater luminance
\* than another comes out with no greater luminance than the other
C10_MonotoneLuminance ==
    (pc = "done" /\ input = BlackToWhite) =>
        \A i, j \in 1..Len(pixels) :
            Luminance(pixels[i].r, pixels[i].g, pixels[i].b)
                <= Luminance(pixels[j].r, pixels[j].g, pixels[j].b)
            => Luminance(data[i].r, data[i].g, data[i].b)
                <= Luminance(data[j].r, data[j].g, data[j].b)

\* a darker and a lighter coloured pixel have gone through the table and
\* come out darker and lighter
C10_Witness ==
    /\ pc = "done"
    /\ input = BlackToWhite
    /\ \E i, j \in 1..Len(pixels) :
          /\ pixels[i].r = 255 /\ pixels[i].g = 0
          /\ pixels[j].r = 10 /\ pixels[j].g = 200
          /\ data[i].r < data[j].r

\* channel values at both ends and in the middle of 0..255
Levels == {0, 1, 127, 128, 254, 255}

\* C11: the luminance index of every pixel with r, g, b in 0..255 is an
\* integer within 0..255, an index of the 256-entry table, so the loop of
\* applyGradientMap never reads outside the table
C11_LuminanceInTable ==
    pc = "done" =>
        /\ \A i \in 1..Len(pixels) :
              Luminance(pixels[i].r, pixels[i].g, pixels[i].b) \in 0..255
        /\ LoopThrowsAt(pixels) = 0
        /\ DOMAIN lut = LutIndices /\ LutIndices = 0..255
        /\ \A r, g, b \in Levels : Luminance(r, g, b) \in 0..255

\* a white pixel, of the greatest luminance, has been looked up in the last
\* entry of the table
C11_Witness ==
    /\ pc = "done"
    /\ Len(stops) >= 2
    /\ \E i \in 1..Len(pixels) :
          /\ pixels[i].r = 255 /\ pixels[i].g = 255 /\ pixels[i].b = 255
          /\ Luminance(pixels[i].r, pixels[i].g, pixels[i].b) = 255
          /\ data[i].r = ToUint8Clamped(lut[255].nan, lut[255].r)

\* C12: whenever an image is loaded and the gradient has at least one stop,
\* the canvas holds the original image's pixels remapped through the table
\* of the current stops, whatever gradients were applied before
C12_CanvasIsRemapOfOriginal ==
    (originalImage # NoImage /\ Len(gradientStops) >= 1) =>
        canvas = RemapData(originalImage, createGradientLUT(gradientStops))

\* with an image loaded, a second gradient has been saved and the first
\* one chosen again, and the canvas shows the image remapped
C12_Witness ==
    /\ originalImage # NoImage
    /\ Len(gradientPresets) = 2
    /\ selectedPresetIndex = 0
    /\ colorInput = gradientPresets[1]
    /\ Len(gradientStops) >= 2
    /\ canvas # originalImage
    /\ canvas = RemapData(originalImage, createGradientLUT(gradientStops))

\* C13: the preset list, empty at the start, never holds the same colors
\* string twice, and every colors string in it parses to at least one stop
C13_PresetsDistinctAndParse ==
    /\ \A i, j \in 1..Len(gradientPresets) :
          gradientPresets[i] = gradientPresets[j] => i = j
    /\ \A i \in 1..Len(gradientPresets) :
          \A parsed \in parseColorInput(gradientPresets[i]) : Len(parsed) >= 1

\* two presets are saved, one of them the trimmed form of the text in the
\* colour input, which has white space in front
C13_Witness ==
    /\ Len(gradientPresets) = 2
    /\ colorInput # Trim(colorInput)
    /\ Len(gradientStops) >= 1
    /\ \E i \in 1..Len(gradientPresets) : gradientPresets[i] = Trim(colorInput)

\* C14: selectedPresetIndex is null or an index of gradientPresets, and it
\* is null after every delete and after every input event of the colour
\* input: a step that leaves it not null is neither of the two
C14_SelectionValid ==
    /\ [](selectedPresetIndex = Null
          \/ selectedPresetIndex \in 0..(Len(gradientPresets) - 1))
    /\ [][selectedPresetIndex' # Null
            => ~(DeleteSelectedPreset \/ \E text \in ToolTexts : InputEvent(text))]_vars

\* the last of two presets was selected and deleted: one preset is left,
\* nothing is selected, and the text of the deleted one is in the colour input
C14_Witness ==
    /\ Len(gradientPresets) = 1
    /\ selectedPresetIndex = Null
    /\ Len(gradientStops) >= 1
    /\ colorInput = Trim(colorInput)
    /\ gradientPresets[1] # colorInput

\* C15: once no load is in flight, originalImage and the canvas hold the
\* image of the load that was started last, whatever the order in which
\* the loads' callbacks ran
C15_LastRequestedWins ==
    (loads = <<>> /\ lastRequested # NoImage) =>
        /\ originalImage = lastRequested
        /\ Len(gradientStops) >= 1 =>
              canvas = RemapData(lastRequested, createGradientLUT(gradientStops))

====
